---------------------------- MODULE Spec2Model ----------------------------
(***************************************************************************)
(* A model of the dungeon generator of MelonFunction/dungeon-gen: the tile *)
(* buffer of a World with its border margin (GetTile, SetTile, ClearTiles),*)
(* the post-processing passes (AddWalls, CleanWalls) and the three         *)
(* generators (GenerateRandomWalk, GenerateDungeonGrid, GenerateDungeon).  *)
(* A generator is a loop with random choices and two wall-clock timers; it *)
(* is modelled one loop iteration per step, its locals held in frame.      *)
(***************************************************************************)
EXTENDS Integers, Sequences, FiniteSets, TLC

VARIABLES
    world,         \* the configuration fields of the World struct
    Tiles,         \* World.Tiles, indexed [y][x]: rows 0 .. len-1 of columns 0 .. len-1
    retryElapsed,  \* time.Now().Sub(world.startTime) > world.DurationBeforeRetry
    errorElapsed,  \* time.Now().Sub(world.genStartTime) > world.DurationBeforeError
    pc,            \* "idle", "panic", or the generator whose loop is running
    frame,         \* the locals of the running generator closure g
    call,          \* the most recent call of the public API and its arguments
    ret,           \* what that call returned
    calls,         \* number of API calls made so far
    placed         \* history: the rooms placeRoom has placed in this attempt

vars == <<world, Tiles, retryElapsed, errorElapsed, pc, frame, call, ret, calls, placed>>

-----------------------------------------------------------------------------
(* Bounds of the model                                                     *)

MaxCalls == 2        \* API calls in one behaviour

MaxTileCount == 16   \* largest tileCount given to GenerateRandomWalk

MaxRoomCount == 3    \* largest roomCount given to the room generators

MaxRuns == 3         \* runs of previousRooms that GenerateDungeonGrid may open

MaxThreshold == 5    \* largest mustSurroundCount given to CleanWalls

MaxPreset == 1       \* tiles already on the grid that placeRoom is tried on

Thresholds == 0 .. MaxThreshold

\* the tileCount values given to GenerateRandomWalk: the smallest, a negative
\* one included, and the largest
TileCounts == {n \in -1 .. MaxTileCount : n <= 2 \/ n >= MaxTileCount - 1}

-----------------------------------------------------------------------------
(* Tiles and errors                                                        *)

TileVoid == 0
TileWall == 1
TilePreWall == 2
TileFloor == 3

Tile == {TileVoid, TileWall, TilePreWall, TileFloor}

ErrOutOfBounds == "ErrOutOfBounds"
ErrNotEnoughSpace == "ErrNotEnoughSpace"
ErrGenerationTimeout == "ErrGenerationTimeout"
ErrFloorAlreadyPlaced == "ErrFloorAlreadyPlaced"
Nil == "nil"

-----------------------------------------------------------------------------
(* Go integer arithmetic                                                   *)

\* Go's integer division truncates toward zero
Quot(a, b) == IF a >= 0 THEN a \div b ELSE -((-a) \div b)

Half(a) == Quot(a, 2)

absInt(a) == IF a < 0 THEN -a ELSE a

minInt(a, b) == IF a < b THEN a ELSE b

maxInt(a, b) == IF a > b THEN a ELSE b

\* rng.Int() is non-negative, so rng.Int() % m lies in 0 .. |m|-1 whatever
\* the sign of m (m = 0 panics: the set is empty)
randInt(a, b) == {a + r : r \in 0 .. (absInt(b + 1 - a) - 1)}

-----------------------------------------------------------------------------
(* The tile buffer                                                         *)

\* the cells of the Width x Height rectangle, numbered row by row as the
\* loops for y < h, for x < w visit them
Cells(w) == 0 .. (w.Width * w.Height - 1)

Idx(w, x, y) == y * w.Width + x

XOf(w, i) == i % w.Width

YOf(w, i) == i \div w.Width

\* world.Tiles[y][x] exists: the index is in range for the slices as they are
InBuffer(T, x, y) == y \in DOMAIN T /\ x \in DOMAIN T[y]

\* a bounds test that forgets the left margin
OutOfBoundsNoLeft(w, x, y) ==
    \/ x >= w.Width - w.Border
    \/ y >= w.Height - w.Border
    \/ y < 0 + w.Border

\* the bounds test shared by GetTile and SetTile
OutOfBounds(w, x, y) ==
    \/ x >= w.Width - w.Border
    \/ x < 0 + w.Border
    \/ y >= w.Height - w.Border
    \/ y < 0 + w.Border

\* a clear that leaves one Floor tile behind
ClearTilesButOne(width, height) ==
    [y \in 0 .. height - 1 |->
        [x \in 0 .. width - 1 |-> IF x = width \div 2 /\ y = height \div 2
                                  THEN TileFloor ELSE TileVoid]]

\* ClearTiles(width, height): height new rows of width cells, every cell the
\* zero Tile; Width and Height of the World are not touched
ClearTiles(width, height) ==
    [y \in 0 .. height - 1 |-> [x \in 0 .. width - 1 |-> TileVoid]]

\* make panics on a negative length: of the rows, or of a row that is made
ClearTilesPanics(width, height) == height < 0 \/ (height > 0 /\ width < 0)

\* GetTile: the error half and the tile half of its result
GetTileErr(w, x, y) == OutOfBounds(w, x, y)

GetTile(w, T, x, y) == IF OutOfBounds(w, x, y) THEN TileVoid ELSE T[y][x]

\* ... and whether the indexing world.Tiles[y][x] panics
GetTilePanics(w, T, x, y) == ~OutOfBounds(w, x, y) /\ ~InBuffer(T, x, y)

\* a SetTile that guards the wrong tile
SetTileErrGuardsWall(w, x, y, t) ==
    IF t = TileWall /\ OutOfBounds(w, x, y) THEN ErrOutOfBounds ELSE Nil

\* SetTile: the error it returns ...
SetTileErr(w, x, y, t) ==
    IF t = TileFloor /\ OutOfBounds(w, x, y) THEN ErrOutOfBounds ELSE Nil

\* ... whether the indexing world.Tiles[y][x] panics ...
SetTilePanics(w, T, x, y, t) ==
    SetTileErr(w, x, y, t) = Nil /\ ~InBuffer(T, x, y)

\* ... and the buffer it leaves
SetTile(w, T, x, y, t) ==
    IF SetTileErr(w, x, y, t) = Nil /\ InBuffer(T, x, y)
    THEN [T EXCEPT ![y][x] = t]
    ELSE T

-----------------------------------------------------------------------------
(* AddWalls                                                                *)

\* the offsets (dx, dy) of the square [-t, t] x [-t, t], dx outermost
Square(t) == [i \in 1 .. (2 * t + 1) * (2 * t + 1) |->
                <<((i - 1) \div (2 * t + 1)) - t, ((i - 1) % (2 * t + 1)) - t>>]

\* inner loops that write the pending wall tile where the wall tile is due
RECURSIVE AddWallsAroundPending(_, _, _, _, _, _)
AddWallsAroundPending(w, T, x, y, sq, k) ==
    IF k > Len(sq) THEN [T |-> T, panic |-> FALSE]
    ELSE LET nx == x + sq[k][1]
             ny == y + sq[k][2]
         IN  IF GetTilePanics(w, T, nx, ny) THEN [T |-> T, panic |-> TRUE]
             ELSE AddWallsAroundPending(w,
                      IF ~GetTileErr(w, nx, ny) /\ GetTile(w, T, nx, ny) = TileVoid
                      THEN SetTile(w, T, nx, ny, TilePreWall)
                      ELSE T,
                      x, y, sq, k + 1)

\* the inner loops of AddWalls around the Floor cell (x, y); w.Border is 0
\* here. The result is the buffer and whether an index went out of range.
RECURSIVE AddWallsAround(_, _, _, _, _, _)
AddWallsAround(w, T, x, y, sq, k) ==
    IF k > Len(sq) THEN [T |-> T, panic |-> FALSE]
    ELSE LET nx == x + sq[k][1]
             ny == y + sq[k][2]
         IN  IF GetTilePanics(w, T, nx, ny) THEN [T |-> T, panic |-> TRUE]
             ELSE AddWallsAround(w,
                      IF ~GetTileErr(w, nx, ny) /\ GetTile(w, T, nx, ny) = TileVoid
                      THEN SetTile(w, T, nx, ny, TileWall)
                      ELSE T,
                      x, y, sq, k + 1)

\* the outer loops of AddWalls from cell i on, row by row
RECURSIVE AddWallsFrom(_, _, _)
AddWallsFrom(w, T, i) ==
    IF i >= w.Width * w.Height THEN [T |-> T, panic |-> FALSE]
    ELSE LET x == XOf(w, i)
             y == YOf(w, i)
         IN  IF GetTilePanics(w, T, x, y) THEN [T |-> T, panic |-> TRUE]
             ELSE LET tile == GetTile(w, T, x, y)
                      r == IF GetTileErr(w, x, y) THEN [T |-> T, panic |-> FALSE]
                           ELSE IF tile = TileFloor
                                THEN AddWallsAround(w, T, x, y, Square(w.WallThickness), 1)
                           ELSE IF tile = TilePreWall
                                THEN [T |-> SetTile(w, T, x, y, TileWall), panic |-> FALSE]
                           ELSE [T |-> T, panic |-> FALSE]
                  IN  IF r.panic THEN r ELSE AddWallsFrom(w, r.T, i + 1)

\* AddWalls: b := Border; Border = 0; the loops; Border = b. A panic in the
\* loops leaves the tiles written so far and Border at 0.
AddWalls(w, T) ==
    LET b == w.Border
        w0 == [w EXCEPT !.Border = 0]
        r == AddWallsFrom(w0, T, 0)
    IN  [Tiles |-> r.T,
         world |-> IF r.panic THEN w0 ELSE [w0 EXCEPT !.Border = b],
         panic |-> r.panic]

-----------------------------------------------------------------------------
(* CleanWalls                                                              *)

Neighbours8 == <<<<-1, -1>>, <<-1, 0>>, <<-1, 1>>, <<0, -1>>,
                 <<0, 1>>, <<1, -1>>, <<1, 0>>, <<1, 1>>>>

\* one of the 8 reads around (x, y) indexes the buffer out of range
FloorCountPanics(w, T, x, y) ==
    \E k \in 1 .. 8 : GetTilePanics(w, T, x + Neighbours8[k][1], y + Neighbours8[k][2])

\* the count of CleanWalls at (x, y): the readable Floor cells among the 8
\* neighbours, on the buffer as it is when (x, y) is visited
FloorCount(w, T, x, y) ==
    Cardinality({k \in 1 .. 8 :
        /\ ~GetTileErr(w, x + Neighbours8[k][1], y + Neighbours8[k][2])
        /\ GetTile(w, T, x + Neighbours8[k][1], y + Neighbours8[k][2]) = TileFloor})

\* a threshold test that is off by one
SurroundedLoose(w, T, x, y, mustSurroundCount) == FloorCount(w, T, x, y) + 1 >= mustSurroundCount

\* the test that turns the Wall at (x, y) into Floor
Surrounded(w, T, x, y, mustSurroundCount) == FloorCount(w, T, x, y) >= mustSurroundCount

\* the loops of CleanWalls from cell i on: the buffer and whether an index
\* went out of range
RECURSIVE CleanWallsFrom(_, _, _, _)
CleanWallsFrom(w, T, mustSurroundCount, i) ==
    IF i >= w.Width * w.Height THEN [T |-> T, panic |-> FALSE]
    ELSE LET x == XOf(w, i)
             y == YOf(w, i)
         IN  IF GetTilePanics(w, T, x, y) THEN [T |-> T, panic |-> TRUE]
             ELSE IF ~GetTileErr(w, x, y) /\ GetTile(w, T, x, y) = TileWall
             THEN IF FloorCountPanics(w, T, x, y) THEN [T |-> T, panic |-> TRUE]
                  ELSE CleanWallsFrom(w,
                           IF Surrounded(w, T, x, y, mustSurroundCount)
                           THEN SetTile(w, T, x, y, TileFloor)
                           ELSE T,
                           mustSurroundCount, i + 1)
             ELSE CleanWallsFrom(w, T, mustSurroundCount, i + 1)

CleanWalls(w, T, mustSurroundCount) ==
    LET r == CleanWallsFrom(w, T, mustSurroundCount, 0)
    IN  [Tiles |-> r.T, panic |-> r.panic]

-----------------------------------------------------------------------------
(* GenerateRandomWalk                                                      *)

\* the cells of the block carved at cursor (x, y), in the order of the loops
BlockCells(w, x, y) ==
    LET h == Half(w.CorridorSize)
        n == 2 * h
    IN  [i \in 1 .. n * n |-> <<x - h + ((i - 1) \div n), y - h + ((i - 1) % n)>>]

\* the two inner loops: st = [T, tc, abandoned], cell k of the block is next
RECURSIVE CarveBlock(_, _, _, _)
CarveBlock(w, st, cells, k) ==
    IF k > Len(cells) \/ st.abandoned THEN st
    ELSE LET dx == cells[k][1]
             dy == cells[k][2]
         IN  IF ~GetTileErr(w, dx, dy) /\ GetTile(w, st.T, dx, dy) # TileVoid
             THEN CarveBlock(w, st, cells, k + 1)
             ELSE IF SetTileErr(w, dx, dy, TileFloor) = ErrOutOfBounds
             THEN [st EXCEPT !.abandoned = TRUE]
             ELSE CarveBlock(w, [st EXCEPT !.T = SetTile(w, st.T, dx, dy, TileFloor),
                                           !.tc = st.tc + 1], cells, k + 1)

\* a scan that accepts the row as soon as it holds a Floor cell
ConvexScanAnyFloor(w, T, cy, cx, maxX, s) ==
    \E x \in cx .. maxX - 1 : ~GetTileErr(w, x, cy) /\ GetTile(w, T, x, cy) = TileFloor

\* the convexity scan of row cy from column cx on: s = [foundFloor, inGap]
RECURSIVE ConvexScan(_, _, _, _, _, _)
ConvexScan(w, T, cy, cx, maxX, s) ==
    IF cx >= maxX THEN FALSE
    ELSE IF GetTileErr(w, cx, cy) THEN ConvexScan(w, T, cy, cx + 1, maxX, s)
    ELSE LET tile == GetTile(w, T, cx, cy)
         IN  IF tile = TileFloor
             THEN IF s.foundFloor /\ s.inGap THEN TRUE
                  ELSE ConvexScan(w, T, cy, cx + 1, maxX, [s EXCEPT !.foundFloor = TRUE])
             ELSE IF tile = TileVoid
             THEN ConvexScan(w, T, cy, cx + 1, maxX,
                             IF s.foundFloor THEN [s EXCEPT !.inGap = TRUE] ELSE s)
             ELSE ConvexScan(w, T, cy, cx + 1, maxX, s)

\* a bounds test with the comparisons the wrong way round
BoundsTooLarge(w, f) ==
    (f.maxX - f.minX > Half(w.Width)) /\ (f.maxY - f.minY > Half(w.Height))

\* the bounds test that rejects an attempt
BoundsTooSmall(w, f) ==
    (f.maxX - f.minX < Half(w.Width)) /\ (f.maxY - f.minY < Half(w.Height))

\* the locals of g at the start of an attempt
WalkFrame(w) ==
    [x |-> Half(w.Width), y |-> Half(w.Height), tc |-> 0,
     minX |-> w.Width, maxX |-> 0, minY |-> w.Height, maxY |-> 0]

-----------------------------------------------------------------------------
(* The calls of the API                                                    *)

Call(op, x, y, t, n) == [op |-> op, x |-> x, y |-> y, t |-> t, n |-> n]

NoCall == Call("none", 0, 0, 0, 0)

NoFrame == [none |-> TRUE]

\* a World as NewWorld builds it, with the fields a caller then sets
NewWorld(width, height, border, wallThickness, corridorSize, offset, minRoom, maxRoom) ==
    [Width |-> width, Height |-> height, Border |-> border,
     WallThickness |-> wallThickness, CorridorSize |-> corridorSize,
     AllowRandomCorridorOffset |-> offset,
     MaxRoomWidth |-> maxRoom[1], MaxRoomHeight |-> maxRoom[2],
     MinRoomWidth |-> minRoom[1], MinRoomHeight |-> minRoom[2]]

InitWith(worlds) ==
    /\ world \in worlds
    /\ retryElapsed = FALSE
    /\ errorElapsed = FALSE
    /\ pc = "idle"
    /\ frame = NoFrame
    /\ call = NoCall
    /\ ret = "none"
    /\ calls = 0
    /\ placed = <<>>

\* a call of the API is made between two others, MaxCalls in all
Idle == pc = "idle" /\ calls < MaxCalls

\* the sizes given to ClearTiles for a side of n cells: from a negative one
\* to one more than the side
ClearSizes(n) == -1 .. n + 1

\* world.ClearTiles(width, height)
DoClearTiles ==
    /\ Idle
    /\ \E width \in ClearSizes(world.Width), height \in ClearSizes(world.Height) :
          /\ call' = Call("ClearTiles", width, height, 0, 0)
          /\ IF ClearTilesPanics(width, height)
             THEN pc' = "panic" /\ ret' = "panic" /\ Tiles' = Tiles
             ELSE /\ pc' = pc
                  /\ ret' = "none"
                  /\ Tiles' = ClearTiles(width, height)
    /\ calls' = calls + 1
    /\ UNCHANGED <<world, retryElapsed, errorElapsed, frame, placed>>

\* world.SetTile(x, y, t), the coordinates reaching one cell past the
\* Width x Height rectangle
DoSetTile ==
    /\ Idle
    /\ \E x \in -1 .. world.Width, y \in -1 .. world.Height, t \in Tile :
          /\ call' = Call("SetTile", x, y, t, 0)
          /\ IF SetTilePanics(world, Tiles, x, y, t)
             THEN pc' = "panic" /\ ret' = "panic" /\ Tiles' = Tiles
             ELSE /\ pc' = pc
                  /\ ret' = SetTileErr(world, x, y, t)
                  /\ Tiles' = SetTile(world, Tiles, x, y, t)
    /\ calls' = calls + 1
    /\ UNCHANGED <<world, retryElapsed, errorElapsed, frame, placed>>

\* world.AddWalls()
DoAddWalls ==
    /\ Idle
    /\ call' = Call("AddWalls", 0, 0, 0, 0)
    /\ LET r == AddWalls(world, Tiles)
       IN  /\ Tiles' = r.Tiles
           /\ world' = r.world
           /\ IF r.panic THEN pc' = "panic" /\ ret' = "panic"
                         ELSE pc' = pc /\ ret' = "none"
    /\ calls' = calls + 1
    /\ UNCHANGED <<retryElapsed, errorElapsed, frame, placed>>

\* world.CleanWalls(mustSurroundCount)
DoCleanWalls ==
    /\ Idle
    /\ \E k \in Thresholds :
          LET r == CleanWalls(world, Tiles, k)
          IN  /\ call' = Call("CleanWalls", 0, 0, 0, k)
              /\ Tiles' = r.Tiles
              /\ IF r.panic THEN pc' = "panic" /\ ret' = "panic"
                            ELSE pc' = pc /\ ret' = "none"
    /\ calls' = calls + 1
    /\ UNCHANGED <<world, retryElapsed, errorElapsed, frame, placed>>

\* a generator returns err; frame keeps the locals it returned with
Return(err) ==
    /\ pc' = "idle"
    /\ ret' = err
    /\ frame' = frame

\* the two clock tests at the head of a generator loop read a clock that
\* only advances: a test that was true stays true until its timer is reset
ClockRead(e, r) ==
    /\ e \in {errorElapsed, TRUE}
    /\ r \in {retryElapsed, TRUE}

\* a reset that sends the cursor to the corner of the playable area
ResetCursorToCorner(w) == [x |-> w.Border + 1, y |-> w.Border + 1]

\* the cursor after a block was abandoned: x = w / 2, y = h / 2
ResetCursor(w) == [x |-> Half(w.Width), y |-> Half(w.Height)]

\* g() of GenerateRandomWalk: a new attempt; world.startTime is not touched
WalkAttempt ==
    /\ Tiles' = ClearTiles(world.Width, world.Height)
    /\ frame' = WalkFrame(world)
    /\ pc' = "RandomWalk"
    /\ ret' = "none"

\* world.GenerateRandomWalk(tileCount) up to the first test of the loop
StartRandomWalk ==
    /\ Idle
    /\ \E n \in TileCounts : call' = Call("GenerateRandomWalk", 0, 0, 0, n)
    /\ errorElapsed' = FALSE
    /\ WalkAttempt
    /\ calls' = calls + 1
    /\ UNCHANGED <<world, retryElapsed, placed>>

\* one iteration of the loop of g: the clock tests, a step of the cursor and
\* the block carved there
WalkStep ==
    /\ pc = "RandomWalk"
    /\ frame.tc < call.n
    /\ \E e \in BOOLEAN, r \in BOOLEAN :
          /\ ClockRead(e, r)
          /\ errorElapsed' = e
          /\ retryElapsed' = r
          /\ IF e THEN Return(ErrGenerationTimeout) /\ Tiles' = Tiles
             ELSE IF r THEN WalkAttempt
             ELSE \E d \in 0 .. 3 :
                    LET x == frame.x + (IF d = 0 THEN -1 ELSE IF d = 1 THEN 1 ELSE 0)
                        y == frame.y + (IF d = 2 THEN -1 ELSE IF d = 3 THEN 1 ELSE 0)
                        st == CarveBlock(world, [T |-> Tiles, tc |-> frame.tc, abandoned |-> FALSE],
                                         BlockCells(world, x, y), 1)
                    IN  /\ Tiles' = st.T
                        /\ pc' = pc
                        /\ ret' = ret
                        /\ frame' = IF st.abandoned
                                     THEN [frame EXCEPT !.x = ResetCursor(world).x,
                                                        !.y = ResetCursor(world).y,
                                                        !.tc = st.tc]
                                     ELSE [x |-> x, y |-> y, tc |-> st.tc,
                                           minX |-> minInt(frame.minX, x),
                                           maxX |-> maxInt(frame.maxX, x),
                                           minY |-> minInt(frame.minY, y),
                                           maxY |-> maxInt(frame.maxY, y)]
    /\ UNCHANGED <<world, call, calls, placed>>

\* the row of the convexity scan
MidRow(f) == f.minY + Half(f.maxY - f.minY)

\* after the loop: the bounds test, the wall written at (0, cy), the scan
WalkCheck ==
    /\ pc = "RandomWalk"
    /\ ~(frame.tc < call.n)
    /\ IF BoundsTooSmall(world, frame) THEN WalkAttempt
       ELSE LET cy == MidRow(frame)
                T1 == SetTile(world, Tiles, 0, cy, TileWall)
            IN  IF SetTilePanics(world, Tiles, 0, cy, TileWall)
                THEN pc' = "panic" /\ ret' = "panic" /\ Tiles' = Tiles /\ frame' = frame
                ELSE IF ConvexScan(world, T1, cy, frame.minX, frame.maxX,
                                   [foundFloor |-> FALSE, inGap |-> FALSE])
                THEN Return(Nil) /\ Tiles' = T1
                ELSE WalkAttempt
    /\ UNCHANGED <<world, retryElapsed, errorElapsed, call, calls, placed>>

-----------------------------------------------------------------------------
(* GenerateDungeonGrid                                                     *)

\* mw and mh: the size of the lattice of rooms; s is MaxRoomWidth
LatticeW(w) == Quot(w.Width - w.Border * 2, w.MaxRoomWidth)

LatticeH(w) == Quot(w.Height - w.Border * 2, w.MaxRoomWidth)

\* a capacity that lets one room too many through
CapacityPlusOne(w) == (LatticeW(w) - 2) * (LatticeH(w) - 2) + 1

\* the room count the capacity test lets through
Capacity(w) == (LatticeW(w) - 2) * (LatticeH(w) - 2)

\* the cursor after rng.Int() % 4 = d
Moved(x, y, d) ==
    [x |-> x + (IF d = 0 THEN -1 ELSE IF d = 1 THEN 1 ELSE 0),
     y |-> y + (IF d = 2 THEN -1 ELSE IF d = 3 THEN 1 ELSE 0)]

countAdj(w, rooms, iy, ix) ==
      (IF iy > 0 /\ rooms[iy - 1][ix] THEN 1 ELSE 0)
    + (IF iy + 1 < LatticeH(w) /\ rooms[iy + 1][ix] THEN 1 ELSE 0)
    + (IF ix > 0 /\ rooms[iy][ix - 1] THEN 1 ELSE 0)
    + (IF ix + 1 < LatticeW(w) /\ rooms[iy][ix + 1] THEN 1 ELSE 0)

\* the test that rejects the cell the cursor has moved to
Rejected(w, rooms, sx, sy) ==
    \/ sx >= LatticeW(w) - 1
    \/ sx <= 0
    \/ sy >= LatticeH(w) - 1
    \/ sy <= 0
    \/ (countAdj(w, rooms, sy, sx) >= 2 /\ rooms[sy][sx])

\* the runs of previousRooms laid end to end, in the order of the two loops
RECURSIVE Flatten(_)
Flatten(runs) == IF runs = <<>> THEN <<>> ELSE Head(runs) \o Flatten(Tail(runs))

\* the backtracking scan: the first recorded cell with 0 to 2 occupied
\* neighbours, as a set of at most one coordinate
Rewind(w, rooms, previousRooms) ==
    LET all == Flatten(previousRooms)
        ok(k) == LET rc == countAdj(w, rooms, all[k].y, all[k].x) IN rc >= 0 /\ rc <= 2
        hits == {k \in 1 .. Len(all) : ok(k)}
    IN  IF hits = {} THEN {}
        ELSE {all[CHOOSE k \in hits : \A j \in hits : k <= j]}

\* SetTile(x, y, TileFloor), its error ignored, for x1 <= x < x2, y1 <= y < y2
FillFloor(w, T, x1, x2, y1, y2) ==
    [y \in DOMAIN T |->
        [x \in DOMAIN T[y] |->
            IF /\ x >= x1 /\ x < x2
               /\ y >= y1 /\ y < y2
               /\ SetTileErr(w, x, y, TileFloor) = Nil
            THEN TileFloor
            ELSE T[y][x]]]

\* the room of lattice cell cur written into the tiles
FillRoom(w, T, cur) ==
    LET s == w.MaxRoomWidth
        ox == cur.x * s + cur.x * w.WallThickness
        oy == cur.y * s + cur.y * w.WallThickness
    IN  FillFloor(w, T, ox + Quot(-s, 2), ox + Half(s) - 1 + 1,
                        oy + Quot(-s, 2), oy + Half(s) - 1 + 1)

\* the offsets randInt can return for a corridor of the grid
GridOffsets(w) ==
    IF w.AllowRandomCorridorOffset
    THEN LET o == w.MaxRoomWidth - w.CorridorSize IN randInt(Quot(-o, 2), Half(o))
    ELSE {0}

\* the corridor from lattice cell prev to cur: [x1, x2) x [y1, y2) before
\* the shift by the wall thickness
GridCorridor(w, prev, cur, offsetCx, offsetCy) ==
    LET s == w.MaxRoomWidth
        c == Half(w.CorridorSize)
        dx == cur.x - prev.x
        dy == cur.y - prev.y
        x1 == prev.x * s
        x2 == cur.x * s
        y1 == prev.y * s
        y2 == cur.y * s
    IN  IF dx = -1 THEN [x1 |-> x2, x2 |-> x1, y1 |-> y1 - c - offsetCy, y2 |-> y2 + c - offsetCy]
        ELSE IF dx = 1 THEN [x1 |-> x1, x2 |-> x2, y1 |-> y1 - c - offsetCy, y2 |-> y2 + c - offsetCy]
        ELSE IF dy = -1 THEN [x1 |-> x1 - c - offsetCx, x2 |-> x2 + c - offsetCx, y1 |-> y2, y2 |-> y1]
        ELSE IF dy = 1 THEN [x1 |-> x1 - c - offsetCx, x2 |-> x2 + c - offsetCx, y1 |-> y1, y2 |-> y2]
        ELSE [x1 |-> x1, x2 |-> x2, y1 |-> y1, y2 |-> y2]

FillCorridor(w, T, cur, r) ==
    FillFloor(w, T, r.x1 + cur.x * w.WallThickness, r.x2 + cur.x * w.WallThickness,
                    r.y1 + cur.y * w.WallThickness, r.y2 + cur.y * w.WallThickness)

\* the (pr, i) pairs of the materialising loops, in order
FillOrder(previousRooms) ==
    LET pairs == {p \in (1 .. Len(previousRooms)) \X (1 .. Len(Flatten(previousRooms))) :
                    p[2] <= Len(previousRooms[p[1]])}
        before(p, q) == p[1] < q[1] \/ (p[1] = q[1] /\ p[2] < q[2])
    IN  [k \in 1 .. Cardinality(pairs) |->
            CHOOSE p \in pairs : Cardinality({q \in pairs : before(q, p)}) = k - 1]

\* g() of GenerateDungeonGrid: a new attempt
GridAttempt(n) ==
    /\ Tiles' = ClearTiles(world.Width, world.Height)
    /\ retryElapsed' = FALSE
    /\ frame' = [sx |-> Half(LatticeW(world)), sy |-> Half(LatticeH(world)),
                 rooms |-> [iy \in 0 .. LatticeH(world) - 1 |->
                              [ix \in 0 .. LatticeW(world) - 1 |-> FALSE]],
                 previousRooms |-> << <<>> >>,
                 rc |-> n,
                 k |-> 1]
    /\ pc' = "DungeonGrid"
    /\ ret' = "none"

\* world.GenerateDungeonGrid(roomCount) up to the first test of the loop
StartDungeonGrid ==
    /\ Idle
    /\ \E n \in 0 .. MaxRoomCount : call' = Call("GenerateDungeonGrid", 0, 0, 0, n)
    /\ errorElapsed' = FALSE
    /\ IF call'.n > Capacity(world)
       THEN Return(ErrNotEnoughSpace) /\ Tiles' = Tiles /\ retryElapsed' = retryElapsed
       ELSE GridAttempt(call'.n)
    /\ calls' = calls + 1
    /\ UNCHANGED <<world, placed>>

\* one iteration of the layout loop
GridStep ==
    /\ pc = "DungeonGrid"
    /\ frame.rc > 0
    /\ \E e \in BOOLEAN, r \in BOOLEAN :
          /\ ClockRead(e, r)
          /\ errorElapsed' = e
          /\ IF e THEN Return(ErrGenerationTimeout) /\ Tiles' = Tiles /\ retryElapsed' = r
             ELSE IF r THEN GridAttempt(call.n)
             ELSE \E d \in 0 .. 3 :
                    LET m == Moved(frame.sx, frame.sy, d)
                        place(c, runs, rc) ==
                            /\ frame' = [frame EXCEPT
                                  !.sx = c.x, !.sy = c.y,
                                  !.rooms[c.y][c.x] = TRUE,
                                  !.previousRooms = [runs EXCEPT ![Len(runs)] = Append(@, c)],
                                  !.rc = rc - 1]
                            /\ pc' = pc /\ ret' = ret
                    IN  /\ retryElapsed' = r
                        /\ Tiles' = Tiles
                        /\ IF Rejected(world, frame.rooms, m.x, m.y)
                           THEN LET back == Rewind(world, frame.rooms, frame.previousRooms)
                                IN  IF back = {}
                                    THEN Return(ErrNotEnoughSpace)
                                    ELSE /\ Len(frame.previousRooms) < MaxRuns
                                         /\ \E c \in back :
                                              place([x |-> c.x, y |-> c.y],
                                                    Append(frame.previousRooms, <<>>),
                                                    frame.rc + 1)
                           ELSE place(m, frame.previousRooms, frame.rc)
    /\ UNCHANGED <<world, call, calls, placed>>

\* after the layout loop: one room, and the corridor to it, per step
GridFill ==
    /\ pc = "DungeonGrid"
    /\ ~(frame.rc > 0)
    /\ LET order == FillOrder(frame.previousRooms)
       IN  IF frame.k > Len(order)
           THEN Return(Nil) /\ Tiles' = Tiles
           ELSE LET pr == order[frame.k][1]
                    i == order[frame.k][2]
                    cur == frame.previousRooms[pr][i]
                    T1 == FillRoom(world, Tiles, cur)
                IN  /\ frame' = [frame EXCEPT !.k = @ + 1, !.sx = cur.x, !.sy = cur.y]
                    /\ pc' = pc /\ ret' = ret
                    /\ IF i = 1 THEN Tiles' = T1
                       ELSE \* both offsets are drawn; a corridor uses the one across it
                            \E offsetCy \in IF cur.y = frame.previousRooms[pr][i - 1].y
                                              THEN GridOffsets(world) ELSE {0},
                               offsetCx \in IF cur.x = frame.previousRooms[pr][i - 1].x
                                              THEN GridOffsets(world) ELSE {0} :
                              Tiles' = FillCorridor(world, T1, cur,
                                         GridCorridor(world, frame.previousRooms[pr][i - 1], cur,
                                                      offsetCx, offsetCy))
    /\ UNCHANGED <<world, retryElapsed, errorElapsed, call, calls, placed>>

-----------------------------------------------------------------------------
(* GenerateDungeon                                                         *)

\* the cells (x+dx, y+dy) of the loops of placeRoom, dx outermost: the room
\* and the perimeter of WallThickness cells around it
Footprint(w, x, y, rw, rh) ==
    LET x0 == Quot(-rw, 2) - w.WallThickness
        x1 == Half(rw) - 1 + w.WallThickness
        y0 == Quot(-rh, 2) - w.WallThickness
        y1 == Half(rh) - 1 + w.WallThickness
        nx == IF x1 < x0 THEN 0 ELSE x1 - x0 + 1
        ny == IF y1 < y0 THEN 0 ELSE y1 - y0 + 1
    IN  [i \in 1 .. nx * ny |->
            [x |-> x + x0 + ((i - 1) \div ny), y |-> y + y0 + ((i - 1) % ny),
             dx |-> x0 + ((i - 1) \div ny), dy |-> y0 + ((i - 1) % ny)]]

\* the test of placeRoom's second pass for a perimeter cell
OnPerimeter(rw, rh, dx, dy) ==
    dx < Quot(-rw, 2) \/ dx > Half(rw) - 1 \/ dy < Quot(-rh, 2) \/ dy > Half(rh) - 1

\* a first pass that tests the bounds and forgets the Floor already placed
RECURSIVE CheckAreaBoundsOnly(_, _, _, _)
CheckAreaBoundsOnly(w, T, cells, k) ==
    IF k > Len(cells) THEN Nil
    ELSE IF GetTileErr(w, cells[k].x, cells[k].y) THEN ErrOutOfBounds
    ELSE CheckAreaBoundsOnly(w, T, cells, k + 1)

\* the first pass of placeRoom from cell k on: the error it returns
RECURSIVE CheckArea(_, _, _, _)
CheckArea(w, T, cells, k) ==
    IF k > Len(cells) THEN Nil
    ELSE IF ~GetTileErr(w, cells[k].x, cells[k].y)
            /\ GetTile(w, T, cells[k].x, cells[k].y) = TileFloor
         THEN ErrFloorAlreadyPlaced
    ELSE IF GetTileErr(w, cells[k].x, cells[k].y) THEN ErrOutOfBounds
    ELSE CheckArea(w, T, cells, k + 1)

\* the second pass of placeRoom from cell k on: st = [T, err]
RECURSIVE Place(_, _, _, _, _, _)
Place(w, st, rw, rh, cells, k) ==
    IF k > Len(cells) \/ st.err # Nil THEN st
    ELSE LET c == cells[k]
         IN  IF OnPerimeter(rw, rh, c.dx, c.dy)
             THEN IF ~GetTileErr(w, c.x, c.y) /\ GetTile(w, st.T, c.x, c.y) = TileVoid
                  THEN IF SetTileErr(w, c.x, c.y, TilePreWall) # Nil
                       THEN [st EXCEPT !.err = SetTileErr(w, c.x, c.y, TilePreWall)]
                       ELSE Place(w, [st EXCEPT !.T = SetTile(w, st.T, c.x, c.y, TilePreWall)],
                                  rw, rh, cells, k + 1)
                  ELSE Place(w, st, rw, rh, cells, k + 1)
             ELSE IF SetTileErr(w, c.x, c.y, TileFloor) # Nil
                  THEN [st EXCEPT !.err = SetTileErr(w, c.x, c.y, TileFloor)]
                  ELSE Place(w, [st EXCEPT !.T = SetTile(w, st.T, c.x, c.y, TileFloor)],
                             rw, rh, cells, k + 1)

\* a placeRoom without its first pass: it writes until a write is refused
placeRoomOnePass(w, T, x, y, rw, rh) ==
    Place(w, [T |-> T, err |-> Nil], rw, rh, Footprint(w, x, y, rw, rh), 1)

\* placeRoom(x, y, w, h): the error it returns and the tiles it leaves
placeRoom(w, T, x, y, rw, rh) ==
    LET cells == Footprint(w, x, y, rw, rh)
        err == CheckArea(w, T, cells, 1)
    IN  IF err # Nil THEN [err |-> err, T |-> T]
        ELSE Place(w, [T |-> T, err |-> Nil], rw, rh, cells, 1)

RoomWidths(w) == randInt(w.MinRoomWidth, w.MaxRoomWidth)

RoomHeights(w) == randInt(w.MinRoomHeight, w.MaxRoomHeight)

\* the corridor offsets randInt can return for rooms of sizes a and b along
\* the wall they share; ch and cw are still 0 when the offset is drawn
DungeonOffsets(w, a, b) ==
    IF w.AllowRandomCorridorOffset
    THEN LET o == minInt(a, b) - 0
         IN  randInt(Quot(-o, 2) + Half(w.CorridorSize), Half(o) - Half(w.CorridorSize))
    ELSE {0}

\* the room and the corridor for direction d from the room (sx, sy, orw, orh)
NextRoom(w, sx, sy, orw, orh, rw, rh, d, offsetCx, offsetCy) ==
    LET t == w.WallThickness
        c == w.CorridorSize
    IN  IF d = 0 THEN
            LET nx == sx - Half(orw) - t - Half(rw)
            IN  [sx |-> nx, sy |-> sy, cw |-> t, ch |-> c,
                 cx |-> nx + Half(rw), cy |-> sy - Half(c) + offsetCy]
        ELSE IF d = 1 THEN
            LET nx == sx + Half(orw) + t + Half(rw)
            IN  [sx |-> nx, sy |-> sy, cw |-> t, ch |-> c,
                 cx |-> nx - Half(rw) - t, cy |-> sy - Half(c) + offsetCy]
        ELSE IF d = 2 THEN
            LET ny == sy - Half(orh) - t - Half(rh)
            IN  [sx |-> sx, sy |-> ny, cw |-> c, ch |-> t,
                 cx |-> sx - Half(c) + offsetCx, cy |-> ny + Half(rh)]
        ELSE
            LET ny == sy + Half(orh) + t + Half(rh)
            IN  [sx |-> sx, sy |-> ny, cw |-> c, ch |-> t,
                 cx |-> sx - Half(c) + offsetCx, cy |-> ny - Half(rh) - t]

coord(x, y, w, h) == [x |-> x, y |-> y, w |-> w, h |-> h]

\* g() of GenerateDungeon: a new attempt, up to the first test of the loop
DungeonAttempt(n) ==
    /\ retryElapsed' = FALSE
    /\ \E rw \in RoomWidths(world), rh \in RoomHeights(world) :
          LET sx == Half(world.Width)
              sy == Half(world.Height)
              p == placeRoom(world, ClearTiles(world.Width, world.Height), sx, sy, rw, rh)
          IN  /\ Tiles' = p.T
              /\ frame' = [sx |-> sx, sy |-> sy, rw |-> rw, rh |-> rh,
                           previousRooms |-> <<coord(0, 0, 0, 0)>>,
                           rc |-> n - 1]
              /\ placed' = IF p.err = Nil
                            THEN <<[room |-> coord(sx, sy, rw, rh), first |-> TRUE,
                                    from |-> coord(0, 0, 0, 0), corridor |-> coord(0, 0, 0, 0)]>>
                            ELSE <<>>
    /\ pc' = "Dungeon"
    /\ ret' = "none"

\* world.GenerateDungeon(roomCount)
StartDungeon ==
    /\ Idle
    /\ \E n \in 0 .. MaxRoomCount : call' = Call("GenerateDungeon", 0, 0, 0, n)
    /\ errorElapsed' = FALSE
    /\ IF call'.n > Capacity(world)
       THEN /\ Return(ErrNotEnoughSpace)
            /\ Tiles' = Tiles /\ retryElapsed' = retryElapsed /\ placed' = placed
       ELSE DungeonAttempt(call'.n)
    /\ calls' = calls + 1
    /\ UNCHANGED world

\* one iteration of the loop of g: a room next to the last one, or a rollback
DungeonStep ==
    /\ pc = "Dungeon"
    /\ frame.rc > 0
    /\ \E e \in BOOLEAN, r \in BOOLEAN :
          /\ ClockRead(e, r)
          /\ errorElapsed' = e
          /\ IF e THEN /\ Return(ErrGenerationTimeout)
                       /\ Tiles' = Tiles /\ retryElapsed' = r /\ placed' = placed
             ELSE IF r THEN DungeonAttempt(call.n)
             ELSE \E rw \in RoomWidths(world), rh \in RoomHeights(world), d \in 0 .. 3 :
                  \* both offsets are drawn; the one across the direction d is not used
                  \E offsetCy \in IF d \in {0, 1} THEN DungeonOffsets(world, rh, frame.rh) ELSE {0},
                     offsetCx \in IF d \in {2, 3} THEN DungeonOffsets(world, rw, frame.rw) ELSE {0} :
                    LET nr == NextRoom(world, frame.sx, frame.sy, frame.rw, frame.rh,
                                       rw, rh, d, offsetCx, offsetCy)
                        p == placeRoom(world, Tiles, nr.sx, nr.sy, rw, rh)
                    IN  /\ retryElapsed' = r
                        /\ pc' = pc /\ ret' = ret
                        /\ IF p.err # Nil
                           THEN /\ \E k \in 1 .. Len(frame.previousRooms) :
                                     LET c == frame.previousRooms[k]
                                     IN  frame' = [frame EXCEPT !.sx = c.x, !.sy = c.y,
                                                                !.rw = c.w, !.rh = c.h]
                                /\ Tiles' = p.T
                                /\ placed' = placed
                           ELSE /\ Tiles' = FillFloor(world, p.T, nr.cx, nr.cx + nr.cw,
                                                      nr.cy, nr.cy + nr.ch)
                                /\ frame' = [frame EXCEPT
                                     !.sx = nr.sx, !.sy = nr.sy, !.rw = rw, !.rh = rh,
                                     !.previousRooms = Append(@, coord(nr.sx, nr.sy, rw, rh)),
                                     !.rc = @ - 1]
                                /\ placed' = Append(placed,
                                     [room |-> coord(nr.sx, nr.sy, rw, rh), first |-> FALSE,
                                      from |-> coord(frame.sx, frame.sy, frame.rw, frame.rh),
                                      corridor |-> coord(nr.cx, nr.cy, nr.cw, nr.ch)])
    /\ UNCHANGED <<world, call, calls>>

\* placeRoom(x, y, rw, rh) alone, on the grid as it stands: the closure of
\* GenerateDungeon applied once, with a centre from the playable area or
\* the margin next to it
DoPlaceRoom ==
    /\ pc = "idle"
    /\ calls = 0
    /\ \E x \in world.Border + 1 .. world.Width - world.Border,
          y \in world.Border + 1 .. world.Height - world.Border,
          rw \in RoomWidths(world), rh \in RoomHeights(world) :
          LET p == placeRoom(world, Tiles, x, y, rw, rh)
          IN  /\ call' = Call("placeRoom", x, y, 0, 0)
              /\ frame' = [sx |-> x, sy |-> y, rw |-> rw, rh |-> rh]
              /\ ret' = p.err
              /\ Tiles' = p.T
    /\ calls' = calls + 1
    /\ UNCHANGED <<world, retryElapsed, errorElapsed, pc, placed>>

\* the loop of g is over: return nil
DungeonReturn ==
    /\ pc = "Dungeon"
    /\ ~(frame.rc > 0)
    /\ Return(Nil)
    /\ UNCHANGED <<world, Tiles, retryElapsed, errorElapsed, call, calls, placed>>

-----------------------------------------------------------------------------
(* Specifications                                                          *)

\* Spec: a small World, open to every call of the API in any order
SmallWorlds ==
    {NewWorld(4, 4, 1, 0, 2, FALSE, <<2, 2>>, <<3, 3>>),
     NewWorld(4, 4, 1, 1, 2, FALSE, <<2, 2>>, <<2, 2>>)}

Init == InitWith(SmallWorlds) /\ Tiles = ClearTiles(world.Width, world.Height)

Next ==
    \/ DoClearTiles
    \/ DoSetTile
    \/ DoAddWalls
    \/ DoCleanWalls
    \/ StartRandomWalk
    \/ WalkStep
    \/ WalkCheck
    \/ StartDungeonGrid
    \/ GridStep
    \/ GridFill
    \/ StartDungeon
    \/ DungeonStep
    \/ DungeonReturn

Spec == Init /\ [][Next]_vars

\* SpecTiles: the two passes over the tiles, from any buffer that calls of
\* SetTile can build in the playable area of a World
TileWorlds == {NewWorld(5, 4, 1, 1, 2, FALSE, <<2, 2>>, <<2, 2>>)}

Playable(w) == {i \in Cells(w) : ~OutOfBounds(w, XOf(w, i), YOf(w, i))}

Buffers(w) ==
    {[y \in 0 .. w.Height - 1 |->
        [x \in 0 .. w.Width - 1 |->
            IF Idx(w, x, y) \in Playable(w) THEN f[Idx(w, x, y)] ELSE TileVoid]] :
        f \in [Playable(w) -> Tile]}

InitTiles ==
    /\ InitWith(TileWorlds)
    /\ Tiles \in Buffers(world)

NextTiles ==
    \/ DoAddWalls
    \/ DoCleanWalls

SpecTiles == InitTiles /\ [][NextTiles]_vars

\* SpecWalls: AddWalls on the buffers that calls of SetTile can build, the
\* margin included: any tile in the playable area and, in the margin, any
\* tile but Floor (Worlds of 3 x 3) or Void and TilePreWall (World of 4 x 3)
WallWorlds ==
    {NewWorld(3, 3, 1, t, 2, FALSE, <<2, 2>>, <<2, 2>>) : t \in {0, 1}}
    \cup {NewWorld(4, 3, 1, 1, 2, FALSE, <<2, 2>>, <<2, 2>>)}

AllBuffers(w, marginTiles) ==
    {[y \in 0 .. w.Height - 1 |->
        [x \in 0 .. w.Width - 1 |->
            IF Idx(w, x, y) \in Playable(w) THEN f[Idx(w, x, y)] ELSE g[Idx(w, x, y)]]] :
        f \in [Playable(w) -> Tile],
        g \in [Cells(w) \ Playable(w) -> marginTiles]}

InitWalls ==
    /\ InitWith(WallWorlds)
    /\ Tiles \in AllBuffers(world, IF world.Width = 3
                                    THEN Tile \ {TileFloor}
                                    ELSE {TileVoid, TilePreWall})

NextWalls == DoAddWalls

SpecWalls == InitWalls /\ [][NextWalls]_vars

\* SpecClear: SetTile, AddWalls and CleanWalls on a World whose buffer
\* ClearTiles(width, height) has just replaced, each side one cell less
\* than the World's, the same, or one cell more
ClearWorlds == {NewWorld(3, 3, 1, 1, 2, FALSE, <<2, 2>>, <<2, 2>>)}

InitClear ==
    /\ InitWith(ClearWorlds)
    /\ \E width \in world.Width - 1 .. world.Width + 1,
          height \in world.Height - 1 .. world.Height + 1 :
          Tiles = ClearTiles(width, height)

NextClear ==
    \/ DoSetTile
    \/ DoAddWalls
    \/ DoCleanWalls

SpecClear == InitClear /\ [][NextClear]_vars

\* SpecPlace: placeRoom on a World whose playable area holds one room of
\* 2 x 2 with its perimeter, on grids with up to MaxPreset tiles set: any
\* tile in the playable area, any but Floor in the margin
PlaceWorlds == {NewWorld(6, 6, 1, 1, 2, FALSE, <<1, 1>>, <<2, 2>>)}

RECURSIVE Preset(_, _)
Preset(w, n) ==
    IF n = 0 THEN {ClearTiles(w.Width, w.Height)}
    ELSE LET less == Preset(w, n - 1)
         IN  less \cup {SetTile(w, T, XOf(w, i), YOf(w, i), t) :
                            T \in less, i \in Cells(w), t \in Tile}

InitPlace ==
    /\ InitWith(PlaceWorlds)
    /\ Tiles \in Preset(world, MaxPreset)

NextPlace == DoPlaceRoom

SpecPlace == InitPlace /\ [][NextPlace]_vars

\* SpecWalk: GenerateRandomWalk on a World that MaxTileCount tiles can fill
\* and on a World too wide for them
WalkWorlds ==
    {NewWorld(7, 7, 1, 1, 2, FALSE, <<2, 2>>, <<2, 2>>),
     NewWorld(14, 10, 2, 1, 2, FALSE, <<2, 2>>, <<2, 2>>)}

InitWalk == InitWith(WalkWorlds) /\ Tiles = ClearTiles(world.Width, world.Height)

NextWalk ==
    \/ StartRandomWalk
    \/ WalkStep
    \/ WalkCheck

SpecWalk == InitWalk /\ [][NextWalk]_vars

\* SpecEdge: GenerateRandomWalk on a World whose Border is 0, where the walk
\* reaches the first column of the buffer
EdgeWorlds == {NewWorld(5, 5, 0, 1, 2, FALSE, <<2, 2>>, <<2, 2>>)}

InitEdge == InitWith(EdgeWorlds) /\ Tiles = ClearTiles(world.Width, world.Height)

SpecEdge == InitEdge /\ [][NextWalk]_vars

\* FairWalk: GenerateRandomWalk run to completion while the wall clock keeps
\* advancing. The call is synchronous, so a step of g that can be taken is
\* taken, and a loop head that is passed again and again at last reads a
\* clock past DurationBeforeError.
LiveWorlds == {NewWorld(7, 7, 1, 1, 2, FALSE, <<2, 2>>, <<2, 2>>)}

InitLive == InitWith(LiveWorlds) /\ Tiles = ClearTiles(world.Width, world.Height)

FairWalk ==
    /\ InitLive
    /\ [][NextWalk]_vars
    /\ WF_vars(WalkStep)
    /\ WF_vars(WalkCheck)
    /\ SF_vars(WalkStep /\ errorElapsed')

\* SpecGrid: GenerateDungeonGrid on lattices of 5 x 3 and 4 x 4 rooms
GridWorlds ==
    {NewWorld(12, 8, 1, 1, 2, off, <<2, 2>>, <<2, 2>>) : off \in BOOLEAN}
    \cup {NewWorld(10, 10, 1, 1, 2, FALSE, <<2, 2>>, <<2, 2>>)}

InitGrid == InitWith(GridWorlds) /\ Tiles = ClearTiles(world.Width, world.Height)

NextGrid ==
    \/ StartDungeonGrid
    \/ GridStep
    \/ GridFill

SpecGrid == InitGrid /\ [][NextGrid]_vars

\* SpecDungeon: GenerateDungeon with rooms 2 wide, without corridor offset
\* (rooms 2 to 4 high) and with it (corridors as wide as the default and
\* rooms 4 high, corridors 1 wide and rooms 2 high)
DungeonWorlds ==
    {NewWorld(12, 12, 1, 1, 2, FALSE, <<2, 2>>, <<2, 4>>),
     NewWorld(12, 12, 1, 1, 2, TRUE, <<2, 4>>, <<2, 4>>),
     NewWorld(12, 12, 1, 1, 1, TRUE, <<2, 2>>, <<2, 2>>)}

InitDungeon == InitWith(DungeonWorlds) /\ Tiles = ClearTiles(world.Width, world.Height)

NextDungeon ==
    \/ StartDungeon
    \/ DungeonStep
    \/ DungeonReturn

SpecDungeon == InitDungeon /\ [][NextDungeon]_vars

-----------------------------------------------------------------------------
(* Properties                                                              *)

\* (x, y) lies in the border margin: x < b, x >= Width-b, y < b or y >= Height-b
InMargin(w, x, y) ==
    \/ x < w.Border
    \/ x >= w.Width - w.Border
    \/ y < w.Border
    \/ y >= w.Height - w.Border

\* the cells of the Width x Height rectangle of w that lie in its border
\* margin
Margin(w) == {i \in Cells(w) : InMargin(w, XOf(w, i), YOf(w, i))}

\* the cells <<x, y>> that the buffer T holds
BufferCells(T) == UNION {{<<x, y>> : x \in DOMAIN T[y]} : y \in DOMAIN T}

\* cell i of the Width x Height rectangle of w is a cell of the buffer T
Held(w, T, i) == InBuffer(T, XOf(w, i), YOf(w, i))

\* the tile of cell i of the Width x Height rectangle of w on the buffer T
At(w, T, i) == T[YOf(w, i)][XOf(w, i)]

\* the last step was a whole call of op, made from the idle state
Called(op) ==
    /\ pc = "idle"
    /\ calls' = calls + 1
    /\ call'.op = op

\* C1: whatever calls of SetTile, GenerateRandomWalk, GenerateDungeonGrid,
\* GenerateDungeon, AddWalls and CleanWalls have been made or are under way,
\* Border is the one the World was built with and no cell of the border
\* margin holds TileFloor.
C1_NoFloorInMargin ==
    \A c \in BufferCells(Tiles) :
        InMargin(world, c[1], c[2]) => Tiles[c[2]][c[1]] # TileFloor

\* C1 witness: AddWalls has put Wall into the margin next to Floor cells and
\* the margin still holds no Floor.
C1_Witness ==
    /\ pc = "idle"
    /\ call.op = "AddWalls"
    /\ world.Border > 0
    /\ \E c \in BufferCells(Tiles) :
          InMargin(world, c[1], c[2]) /\ Tiles[c[2]][c[1]] = TileWall
    /\ \E c \in BufferCells(Tiles) : Tiles[c[2]][c[1]] = TileFloor

\* C2: a call SetTile(x, y, TileFloor) with (x, y) in the border margin of
\* the buffer returns ErrOutOfBounds and leaves every cell as it was.
C2_MarginFloorRejected ==
    [][(/\ Called("SetTile")
        /\ call'.t = TileFloor
        /\ InBuffer(Tiles, call'.x, call'.y)
        /\ InMargin(world, call'.x, call'.y))
       => (ret' = ErrOutOfBounds /\ pc' = "idle" /\ Tiles' = Tiles)]_vars

\* C2 witness: SetTile of Floor on a margin cell of a buffer that already
\* holds tiles has returned ErrOutOfBounds.
C2_Witness ==
    /\ pc = "idle"
    /\ call.op = "SetTile"
    /\ call.t = TileFloor
    /\ InBuffer(Tiles, call.x, call.y)
    /\ InMargin(world, call.x, call.y)
    /\ ret = ErrOutOfBounds
    /\ \E c \in BufferCells(Tiles) : Tiles[c[2]][c[1]] # TileVoid

\* the Floor cells among the 8 neighbours of cell i on the buffer T
FloorNeighbours(w, T, i) ==
    Cardinality({j \in Cells(w) \ {i} :
        /\ XOf(w, j) - XOf(w, i) \in -1 .. 1
        /\ YOf(w, j) - YOf(w, i) \in -1 .. 1
        /\ Held(w, T, j)
        /\ At(w, T, j) = TileFloor})

\* the cells that a call turned from Wall to Floor
Turned(w, T0, T1) ==
    {i \in Cells(w) : Held(w, T0, i) /\ At(w, T0, i) = TileWall /\ At(w, T1, i) = TileFloor}

\* the buffer as the row-major scan finds it on reaching cell i: the cells
\* before i as the call leaves them, the others as they were
AtVisit(w, T0, T1, i) ==
    [y \in DOMAIN T0 |-> [x \in DOMAIN T0[y] |->
        IF Idx(w, x, y) < i THEN T1[y][x] ELSE T0[y][x]]]

\* C3 as stated: a call CleanWalls(k) turns a Wall into Floor only if at
\* least k of its 8 neighbours were Floor on the grid as it was when the
\* call began.
C3_CountedAtCallStart ==
    [][Called("CleanWalls") =>
        \A i \in Turned(world, Tiles, Tiles') :
            FloorNeighbours(world, Tiles, i) >= call'.n]_vars

\* C3 amended: a call CleanWalls(k) turns a Wall into Floor only if at least
\* k of its 8 neighbours are Floor on the grid as it is when the row-major
\* scan reaches the cell, the cells scanned earlier already converted.
C3_CountedAtVisit ==
    [][Called("CleanWalls") =>
        \A i \in Turned(world, Tiles, Tiles') :
            FloorNeighbours(world, AtVisit(world, Tiles, Tiles', i), i) >= call'.n]_vars

\* C3 witness: CleanWalls(k) has run over a grid and left standing a Wall
\* that has Floor neighbours, but fewer than k of them.
C3_Witness ==
    /\ pc = "idle"
    /\ call.op = "CleanWalls"
    /\ \E i \in Cells(world) :
          /\ At(world, Tiles, i) = TileWall
          /\ ~InMargin(world, XOf(world, i), YOf(world, i))
          /\ FloorNeighbours(world, Tiles, i) >= 1
          /\ FloorNeighbours(world, Tiles, i) < call.n

\* the last call was of op and has returned err
Returned(op, err) ==
    /\ pc = "idle"
    /\ call.op = op
    /\ ret = err

\* the lattice cells <<x, y>> marked in rooms
Occupied(w, rooms) ==
    {c \in (0 .. LatticeW(w) - 1) \X (0 .. LatticeH(w) - 1) : rooms[c[2]][c[1]]}

\* the lattice cells that are not on the border of the lattice
Inner(w) == (1 .. LatticeW(w) - 2) \X (1 .. LatticeH(w) - 2)

Adjacent4(a, b) == absInt(a[1] - b[1]) + absInt(a[2] - b[2]) = 1

\* the cells of all that steps between 4-adjacent cells of all reach from S
RECURSIVE Reach(_, _)
Reach(S, all) ==
    LET N == S \cup {c \in all : \E d \in S : Adjacent4(c, d)}
    IN  IF N = S THEN S ELSE Reach(N, all)

\* C4 as stated: when GenerateDungeonGrid(n) has returned nil, exactly n
\* lattice cells are occupied and each of them is reached from the first
\* placed cell by steps between 4-adjacent occupied cells.
C4_ExactlyNConnected ==
    Returned("GenerateDungeonGrid", Nil) =>
        LET occ == Occupied(world, frame.rooms)
            run == frame.previousRooms[1]
        IN  /\ Cardinality(occ) = call.n
            /\ occ # {} => /\ run # <<>>
                            /\ Reach({<<run[1].x, run[1].y>>} \cap occ, occ) = occ

\* C5 as stated: when GenerateDungeonGrid(n) with n = (mw-2)*(mh-2) has
\* returned, whatever directions were drawn and the clock not having run
\* out, it has returned nil and every non-border lattice cell is occupied.
C5_FullLatticeSucceeds ==
    (/\ pc = "idle"
     /\ call.op = "GenerateDungeonGrid"
     /\ call.n = (LatticeW(world) - 2) * (LatticeH(world) - 2)
     /\ LatticeW(world) > 2 /\ LatticeH(world) > 2
     /\ ret # ErrGenerationTimeout)
    => /\ ret = Nil
       /\ Occupied(world, frame.rooms) = Inner(world)

\* (mw-2)*(mh-2) with mw = (Width-2*Border)/MaxRoomWidth and
\* mh = (Height-2*Border)/MaxRoomWidth
RoomLimit(w) ==
    (Quot(w.Width - 2 * w.Border, w.MaxRoomWidth) - 2)
        * (Quot(w.Height - 2 * w.Border, w.MaxRoomWidth) - 2)

\* C6: a call GenerateDungeonGrid(n) or GenerateDungeon(n) with
\* n > (mw-2)*(mh-2) returns ErrNotEnoughSpace at once and leaves every tile
\* as it was before the call.
C6_OverCapacityRejected ==
    [][(/\ Called("GenerateDungeonGrid") \/ Called("GenerateDungeon")
        /\ call'.n > RoomLimit(world))
       => (ret' = ErrNotEnoughSpace /\ pc' = "idle" /\ Tiles' = Tiles)]_vars

\* C6 witness: a room generator called with n over the capacity on a grid
\* that holds Floor has returned ErrNotEnoughSpace.
C6_Witness ==
    /\ \/ Returned("GenerateDungeonGrid", ErrNotEnoughSpace)
       \/ Returned("GenerateDungeon", ErrNotEnoughSpace)
    /\ call.n > RoomLimit(world)
    /\ \E c \in BufferCells(Tiles) : Tiles[c[2]][c[1]] = TileFloor

\* the cells <<x, y>> of the rectangle of w columns from x and h rows from y
Rect(x, y, w, h) == (x .. x + w - 1) \X (y .. y + h - 1)

\* the cells that placeRoom fills with Floor for the room c
Interior(c) == Rect(c.x + Quot(-c.w, 2), c.y + Quot(-c.h, 2), 2 * Half(c.w), 2 * Half(c.h))

\* the cells <<x, y>> of the buffer that hold Floor
FloorCells(w, T) == {c \in (0 .. w.Width - 1) \X (0 .. w.Height - 1) : T[c[2]][c[1]] = TileFloor}

\* C7: when GenerateDungeon(n) has returned nil, no cell belongs to the
\* Floor interiors of two rooms that placeRoom placed in the final attempt.
C7_RoomsDisjoint ==
    Returned("GenerateDungeon", Nil) =>
        \A i \in 1 .. Len(placed) : \A j \in 1 .. Len(placed) :
            i < j => Interior(placed[i].room) \cap Interior(placed[j].room) = {}

\* C7 witness: GenerateDungeon has returned nil with three rooms placed, all
\* of them Floor.
C7_Witness ==
    /\ Returned("GenerateDungeon", Nil)
    /\ Len(placed) >= 3
    /\ \A i \in 1 .. Len(placed) :
          /\ Interior(placed[i].room) # {}
          /\ Interior(placed[i].room) \subseteq FloorCells(world, Tiles)

\* room k of placed is joined to an earlier room by Floor through its corridor
Joined(k) ==
    LET floor == FloorCells(world, Tiles)
        cor == placed[k].corridor
    IN  \E c \in Rect(cor.x, cor.y, cor.w, cor.h) \cap floor :
            LET comp == Reach({c}, floor)
            IN  /\ comp \cap Interior(placed[k].room) # {}
                /\ \E j \in 1 .. k - 1 : comp \cap Interior(placed[j].room) # {}

\* C8 as stated: when GenerateDungeon(n) has returned nil, every room placed
\* after the first is joined to a room placed earlier by a 4-connected path
\* of Floor cells through the corridor carved for it, with and without
\* AllowRandomCorridorOffset.
C8_RoomsJoined ==
    Returned("GenerateDungeon", Nil) =>
        \A k \in 2 .. Len(placed) : Joined(k)

\* the columns and the rows that the bounding box of the cells F spans
Columns(F) ==
    IF F = {} THEN 0
    ELSE LET xs == {c[1] : c \in F}
         IN  (CHOOSE a \in xs : \A b \in xs : a >= b)
                 - (CHOOSE a \in xs : \A b \in xs : a <= b) + 1

Rows(F) ==
    IF F = {} THEN 0
    ELSE LET ys == {c[2] : c \in F}
         IN  (CHOOSE a \in ys : \A b \in ys : a >= b)
                 - (CHOOSE a \in ys : \A b \in ys : a <= b) + 1

\* C9: when GenerateRandomWalk(N) has returned nil, the bounding box of the
\* Floor tiles spans at least Width/2 columns or at least Height/2 rows.
C9_FloorSpansHalf ==
    Returned("GenerateRandomWalk", Nil) =>
        LET F == FloorCells(world, Tiles)
        IN  \/ Columns(F) >= Quot(world.Width, 2)
            \/ Rows(F) >= Quot(world.Height, 2)

\* C9 witness: GenerateRandomWalk has returned nil with at least tileCount
\* Floor tiles, the cursor having moved over Width/2 columns or Height/2 rows.
C9_Witness ==
    /\ Returned("GenerateRandomWalk", Nil)
    /\ call.n > 2
    /\ Cardinality(FloorCells(world, Tiles)) >= call.n
    /\ ~BoundsTooSmall(world, frame)

\* C10: when GenerateRandomWalk(N) has returned nil, the Floor tiles form
\* one 4-connected region, the cells of abandoned blocks and of the blocks
\* carved after a reset of the cursor included.
C10_FloorConnected ==
    Returned("GenerateRandomWalk", Nil) =>
        LET F == FloorCells(world, Tiles)
        IN  \A c \in F : Reach({c}, F) = F

\* C10 witness: GenerateRandomWalk has returned nil with Floor on the last
\* column or row of the playable area, from where a step further abandons
\* the block and resets the cursor.
C10_Witness ==
    /\ Returned("GenerateRandomWalk", Nil)
    /\ call.n > 2
    /\ \E c \in FloorCells(world, Tiles) :
          \/ c[1] = world.Width - world.Border - 1
          \/ c[2] = world.Height - world.Border - 1

\* C11 as stated: every call of a generator, whatever its argument, 0 and
\* negative values included, returns at last with nil, ErrNotEnoughSpace or
\* ErrGenerationTimeout while the wall clock keeps advancing. (With
\* tileCount <= 0 the only step of g is WalkCheck, whose retry calls g again
\* from the locals it started with: the recursion shows as a step that
\* changes nothing, taken for ever.)
C11_EveryCallReturns ==
    (pc \notin {"idle", "panic"})
        ~> (pc = "idle" /\ ret \in {Nil, ErrNotEnoughSpace, ErrGenerationTimeout})

\* the generator under way stands at the head of a new attempt: its locals
\* are those g starts with
AtAttemptStart(p, f, n) ==
    \/ p = "RandomWalk" /\ f = WalkFrame(world)
    \/ p = "DungeonGrid" /\ f.previousRooms = << <<>> >> /\ f.rc = n
    \/ p = "Dungeon" /\ Len(f.previousRooms) = 1 /\ f.rc = n - 1
                     /\ f.sx = Half(world.Width) /\ f.sy = Half(world.Height)

\* the last step began an attempt of a generator: the first one of a call or
\* a retry from the loop of g
AttemptBegins ==
    /\ AtAttemptStart(pc', frame', call'.n)
    /\ Tiles' # Tiles \/ frame' # frame \/ pc' # pc

\* C12 as stated: in the three generators the per-retry timer is reset at
\* the start of every attempt, so no attempt begins with more than
\* DurationBeforeRetry already counted against it.
C12_RetryTimerReset ==
    [][AttemptBegins => ~retryElapsed']_vars

\* the cells <<x, y>> of the first room of GenerateDungeon, its perimeter of
\* WallThickness cells included
FirstRoomArea(w, f) ==
    Rect(f.sx - Half(f.rw) - w.WallThickness, f.sy - Half(f.rh) - w.WallThickness,
         2 * Half(f.rw) + 2 * w.WallThickness, 2 * Half(f.rh) + 2 * w.WallThickness)

\* C13: every attempt of a generator, the first of a call and each retry,
\* begins on a grid whose cells are all Void: GenerateRandomWalk and
\* GenerateDungeonGrid reach their loop with no tile on the grid,
\* GenerateDungeon with none but those of the first room of the attempt.
C13_AttemptsStartClear ==
    [][AttemptBegins =>
        \A c \in BufferCells(Tiles') :
            Tiles'[c[2]][c[1]] # TileVoid =>
                /\ pc' = "Dungeon"
                /\ c \in FirstRoomArea(world, frame')]_vars

\* C13 witness: within one call the walk has been abandoned on the retry
\* timer and its next attempt stands at the loop head on an empty grid.
C13_Witness ==
    /\ calls = 1
    /\ pc = "RandomWalk"
    /\ retryElapsed
    /\ frame = WalkFrame(world)
    /\ \A c \in BufferCells(Tiles) : Tiles[c[2]][c[1]] = TileVoid

\* C14: AddWalls is idempotent: on the grid and the World that a call of
\* AddWalls leaves, a second call changes no tile and leaves the same
\* Border, which is the Border from before the first call.
C14_AddWallsIdempotent ==
    [][(Called("AddWalls") /\ pc' # "panic") =>
        /\ AddWalls(world', Tiles').Tiles = Tiles'
        /\ AddWalls(world', Tiles').world = world'
        /\ world'.Border = world.Border]_vars

\* C14 witness: AddWalls has been called on a grid with Floor and Void and
\* has turned Void cells around the Floor into Wall, in the margin too.
C14_Witness ==
    /\ Returned("AddWalls", "none")
    /\ \E i \in Cells(world), j \in Margin(world), k \in Cells(world) :
          /\ At(world, Tiles, i) = TileFloor
          /\ At(world, Tiles, j) = TileWall
          /\ XOf(world, j) - XOf(world, i) \in -1 .. 1
          /\ YOf(world, j) - YOf(world, i) \in -1 .. 1
          /\ At(world, Tiles, k) = TileVoid

\* cell c of the buffer lies in the [-t, +t] square, t = WallThickness, of a
\* Floor cell of T
NearFloor(w, T, c) ==
    \E d \in BufferCells(T) :
        /\ T[d[2]][d[1]] = TileFloor
        /\ absInt(c[1] - d[1]) <= w.WallThickness
        /\ absInt(c[2] - d[2]) <= w.WallThickness

\* C15 as stated: after AddWalls has returned, every cell of the buffer that
\* was Floor is Floor; a cell is Wall exactly when it was Wall, was
\* TilePreWall, or was Void within the [-t, +t] square of a Floor cell;
\* every other Void cell is Void; no TilePreWall remains in the buffer,
\* margin included; Border is unchanged.
C15_AddWallsResult ==
    [][(Called("AddWalls") /\ pc' # "panic") =>
        /\ world'.Border = world.Border
        /\ \A c \in BufferCells(Tiles) :
              LET old == Tiles[c[2]][c[1]]
                  new == Tiles'[c[2]][c[1]]
              IN  /\ old = TileFloor => new = TileFloor
                  /\ new = TileWall <=>
                        \/ old \in {TileWall, TilePreWall}
                        \/ old = TileVoid /\ NearFloor(world, Tiles, c)
                  /\ (old = TileVoid /\ ~NearFloor(world, Tiles, c)) => new = TileVoid
                  /\ new # TilePreWall]_vars

\* the rooms that placeRoom has placed in the attempt under way
PlacedRooms == {placed[i].room : i \in 1 .. Len(placed)}

\* C16 as stated: while an attempt of GenerateDungeon runs and when it has
\* returned nil, the rollback history holds exactly the rooms placeRoom has
\* placed in the attempt, the first room included, and the anchor of the
\* next room, the last room placed or the one chosen on rollback, is one of them.
C16_HistoryIsPlacedRooms ==
    (pc = "Dungeon" \/ Returned("GenerateDungeon", Nil)) =>
        /\ {frame.previousRooms[k] : k \in 1 .. Len(frame.previousRooms)} = PlacedRooms
        /\ PlacedRooms # {} => coord(frame.sx, frame.sy, frame.rw, frame.rh) \in PlacedRooms

\* the anchor is the zero coord of make([]coord, 1), chosen on a rollback
C16_ZeroAnchor ==
    /\ pc = "Dungeon"
    /\ PlacedRooms # {}
    /\ coord(frame.sx, frame.sy, frame.rw, frame.rh) = coord(0, 0, 0, 0)

\* the last step returned err from a call of op: at once from the idle
\* state, or from the loop of the generator
Returns(op, p, err) ==
    /\ pc' = "idle"
    /\ call'.op = op
    /\ ret' = err
    /\ pc = p \/ Called(op)

\* C17 as stated: whenever GenerateDungeonGrid returns ErrNotEnoughSpace the
\* room count exceeds (mw-2)*(mh-2), the error comes from the call itself
\* before any attempt has started, and the tiles are those from before the
\* call.
C17_NotEnoughSpaceBeforeAttempt ==
    [][Returns("GenerateDungeonGrid", "DungeonGrid", ErrNotEnoughSpace) =>
        /\ call'.n > RoomLimit(world)
        /\ Called("GenerateDungeonGrid")
        /\ Tiles' = Tiles]_vars

\* the cells <<x, y>> that lie outside the buffer of w or in its margin
Unplaceable(w, T) == {c \in (-2 .. w.Width + 1) \X (-2 .. w.Height + 1) :
                        ~InBuffer(T, c[1], c[2]) \/ InMargin(w, c[1], c[2])}

\* C18: placeRoom is all-or-nothing. It returns an error exactly when a cell
\* of the room or of its perimeter of WallThickness cells holds Floor or is
\* out of bounds, and then no tile has changed; when it returns nil every
\* interior cell is Floor, every perimeter cell that was Void is
\* TilePreWall and every perimeter cell that was not Void keeps its tile.
C18_PlaceRoomAllOrNothing ==
    [][Called("placeRoom") =>
        LET room == coord(frame'.sx, frame'.sy, frame'.rw, frame'.rh)
            area == FirstRoomArea(world, frame')
            perimeter == area \ Interior(room)
            blocked == \/ area \cap Unplaceable(world, Tiles) # {}
                       \/ area \cap FloorCells(world, Tiles) # {}
        IN  /\ ret' # Nil <=> blocked
            /\ ret' # Nil => Tiles' = Tiles
            /\ ret' = Nil =>
                  /\ \A c \in Interior(room) : Tiles'[c[2]][c[1]] = TileFloor
                  /\ \A c \in perimeter :
                        Tiles'[c[2]][c[1]] =
                            IF Tiles[c[2]][c[1]] = TileVoid
                            THEN TilePreWall
                            ELSE Tiles[c[2]][c[1]]]_vars

\* C18 witness: placeRoom has returned nil for a room of 2 x 2 and left a
\* Wall that stood on the perimeter among the TilePreWall it wrote.
C18_Witness ==
    /\ Returned("placeRoom", Nil)
    /\ Interior(coord(frame.sx, frame.sy, frame.rw, frame.rh)) # {}
    /\ \E c \in FirstRoomArea(world, frame) : Tiles[c[2]][c[1]] = TileWall
    /\ \E c \in FirstRoomArea(world, frame) : Tiles[c[2]][c[1]] = TilePreWall

\* C18 second witness: placeRoom has refused a room whose area holds Floor
\* and left the grid with that Floor tile alone.
C18_Refused ==
    /\ Returned("placeRoom", ErrFloorAlreadyPlaced)
    /\ Cardinality(FloorCells(world, Tiles)) = 1

\* C19 as stated: while GenerateRandomWalk(N) runs the budget counter tc is
\* the number of cells the attempt has turned from Void to Floor, those of
\* abandoned blocks included, and when the call has returned nil with
\* N >= 1 the grid holds at least N and fewer than
\* N + CorridorSize * CorridorSize Floor cells.
C19_FloorCountInBudget ==
    LET floors == Cardinality(FloorCells(world, Tiles))
    IN  /\ pc = "RandomWalk" => frame.tc = floors
        /\ (Returned("GenerateRandomWalk", Nil) /\ call.n >= 1) =>
              /\ floors >= call.n
              /\ floors < call.n + world.CorridorSize * world.CorridorSize

\* C20 as stated: GenerateRandomWalk writes only Floor tiles: while it runs
\* and when it has returned nil every cell of the grid, the border columns
\* included, is Void or Floor.
C20_OnlyVoidAndFloor ==
    (pc = "RandomWalk" \/ Returned("GenerateRandomWalk", Nil)) =>
        \A i \in Cells(world) : At(world, Tiles, i) \in {TileVoid, TileFloor}

\* row y of the buffer holds, left to right in the playable area, a Floor
\* cell, then a Void cell, then a Floor cell
FloorGapFloor(w, T, y) ==
    \E x1 \in 0 .. w.Width - 1, x2 \in 0 .. w.Width - 1, x3 \in 0 .. w.Width - 1 :
        /\ x1 < x2 /\ x2 < x3
        /\ y >= 0 /\ y < w.Height
        /\ ~InMargin(w, x1, y) /\ ~InMargin(w, x3, y)
        /\ T[y][x1] = TileFloor
        /\ T[y][x2] = TileVoid
        /\ T[y][x3] = TileFloor

\* C21: GenerateRandomWalk returns nil only if the row through the vertical
\* midpoint of the walk's bounding box, cy = minY + (maxY-minY)/2, holds,
\* read left to right inside the playable area, a Floor cell, then a Void
\* cell, then a Floor cell.
C21_MidlineHasGap ==
    Returned("GenerateRandomWalk", Nil) =>
        FloorGapFloor(world, Tiles, frame.minY + Quot(frame.maxY - frame.minY, 2))

\* C21 witness: GenerateRandomWalk has returned nil for a walk of more than
\* two tiles whose midline holds Floor, a Void gap and Floor again, while
\* another row of the walk holds no such gap.
C21_Witness ==
    /\ Returned("GenerateRandomWalk", Nil)
    /\ call.n > 2
    /\ FloorGapFloor(world, Tiles, frame.minY + Quot(frame.maxY - frame.minY, 2))
    /\ \E y \in 0 .. world.Height - 1 :
          /\ \E x \in 0 .. world.Width - 1 : Tiles[y][x] = TileFloor
          /\ ~FloorGapFloor(world, Tiles, y)

=============================================================================
